---- MODULE Spec2Model ----
(***************************************************************************)
(* cargo-extensions, src/bin/features.rs: the interactive `cargo features` *)
(* run (manage_features) and the feature resolver it is built on           *)
(* (get_dependency_features).                                              *)
(*                                                                         *)
(* Strings are sequences of one-character strings, so that comparison,     *)
(* trimming, parsing and fuzzy matching are computed and not assumed.      *)
(***************************************************************************)
EXTENDS Integers, Sequences, FiniteSets, TLC

\* ---------------------------------------------------------------- bounds

\* Number of feature names a target package may declare (taken from NamePool).
MaxNames == 3
\* Length of the explicit feature list of a dependency declaration.
MaxExplicit == 2
\* Number of workspace packages.
MaxPackages == 2
\* Number of direct dependencies of a workspace package.
MaxDeps == 2
\* Length of the version requirement text of a manifest entry.
MaxReqLen == 2
\* Number of feature names below "default" in a generated feature map.
MaxBelow == 16
\* Number of feature names above "default" in a generated feature map.
MaxAbove == 48

\* --------------------------------------------------------------- strings

\* The characters in use, in ascending byte order (Rust compares str bytewise).
ByteOrder ==
    << " ", ",", ".", "1", "=", "S", "^",
       "a", "b", "c", "d", "e", "f", "g", "h", "i", "j", "k", "l", "m",
       "n", "o", "p", "q", "r", "s", "t", "u", "v", "w", "x", "y", "z", "~" >>

Code(c) == CHOOSE i \in 1..Len(ByteOrder) : ByteOrder[i] = c

RECURSIVE StrCmp(_, _)
\* str::cmp: lexicographic on bytes; "Less", "Equal" or "Greater".
StrCmp(a, b) ==
    IF a = <<>> /\ b = <<>> THEN "Equal"
    ELSE IF a = <<>> THEN "Less"
    ELSE IF b = <<>> THEN "Greater"
    ELSE IF Code(Head(a)) < Code(Head(b)) THEN "Less"
    ELSE IF Code(Head(a)) > Code(Head(b)) THEN "Greater"
    ELSE StrCmp(Tail(a), Tail(b))

Range(s) == { s[i] : i \in 1..Len(s) }

\* Vec::contains
Contains(s, x) == \E i \in 1..Len(s) : s[i] = x

RECURSIVE TrimStartMatches(_, _)
\* str::trim_start_matches(c): every leading c is removed.
TrimStartMatches(s, c) ==
    IF s # <<>> /\ Head(s) = c THEN TrimStartMatches(Tail(s), c) ELSE s

RECURSIVE TrimEndMatches(_, _)
TrimEndMatches(s, c) ==
    IF s # <<>> /\ s[Len(s)] = c
    THEN TrimEndMatches(SubSeq(s, 1, Len(s) - 1), c)
    ELSE s

RECURSIVE Split(_, _)
\* str::split(sep): the pieces between the separators (always at least one).
Split(s, sep) ==
    IF \A i \in 1..Len(s) : s[i] # sep THEN << s >>
    ELSE LET k == CHOOSE i \in 1..Len(s) :
                     s[i] = sep /\ \A j \in 1..(i - 1) : s[j] # sep
         IN  << SubSeq(s, 1, k - 1) >> \o Split(SubSeq(s, k + 1, Len(s)), sep)

\* Option<T>
None == [ some |-> FALSE, val |-> <<>> ]
Some(v) == [ some |-> TRUE, val |-> v ]

\* All sequences over S of length at most n.
SeqsUpTo(S, n) == UNION { [1..k -> S] : k \in 0..n }

\* ------------------------------------------------------- feature resolver

default == << "d", "e", "f", "a", "u", "l", "t" >>

\* Feature names a target package may declare; "alloc" and "Std" sort before
\* "default", "std" and "derive" after it.
NamePool ==
    << default,
       << "s", "t", "d" >>,
       << "a", "l", "l", "o", "c" >>,
       << "d", "e", "r", "i", "v", "e" >>,
       << "S", "t", "d" >>,
       << "z" >> >>

FeatureNames == { NamePool[i] : i \in 1..MaxNames }

\* A feature map (Package::features, a BTreeMap<String, Vec<String>>): a
\* function from the declared names to their includes.
FeatureMaps == UNION { [S -> { <<>> }] : S \in SUBSET FeatureNames }

Letters ==
    << "a", "b", "c", "d", "e", "f", "g", "h", "i", "j", "k", "l", "m",
       "n", "o", "p", "q", "r", "s", "t", "u", "v", "w", "x", "y", "z" >>

\* Two-letter names: "aa", "ab", .. sort before "default", "ea", "eb", ..
\* after it.
BelowName(i) == << Letters[((i - 1) \div 26) + 1], Letters[((i - 1) % 26) + 1] >>
AboveName(i) == << Letters[((i - 1) \div 26) + 5], Letters[((i - 1) % 26) + 1] >>

\* The feature map that declares "default", k names below it and m above.
GeneratedMap(k, m) ==
    [ n \in { default } \cup { BelowName(i) : i \in 1..k }
                         \cup { AboveName(i) : i \in 1..m } |-> <<>> ]

RECURSIVE Ascending(_)
\* The names of S in ascending byte order: the iteration order of a BTreeMap.
Ascending(S) ==
    IF S = {} THEN <<>>
    ELSE LET m == CHOOSE x \in S : \A y \in S : StrCmp(x, y) # "Greater"
         IN  << m >> \o Ascending(S \ { m })

\* The closure handed to sort_by: "default" is Less than anything, every
\* other name is compared with its partner by name.
compare(a, b) ==
    IF a.name = default THEN "Less" ELSE StrCmp(a.name, b.name)

\* ------------------------------------------- slice::sort_by(compare)
\*
\* all_features.sort_by(..) is the standard library's stable sort. Its
\* documentation leaves the resulting order unspecified (and allows a panic)
\* when the closure is not a total order, and compare is not one as soon as
\* "default" is present: compare(default, x) is Less for every x, while
\* compare(x, default) is Less too for x < "default". What the call returns
\* then is what the algorithm computes from the answers it asks for, so the
\* algorithm is modelled step by step: insertion sort up to 20 elements,
\* driftsort (run detection, merging, stable quicksort, small sorts) above,
\* as in core::slice::sort::stable of Rust 1.81 and later on a 64-bit target,
\* where a Feature (a String and a Vec<String>) is 48 bytes wide.

is_less(a, b) == compare(a, b) = "Less"

\* The sort panicked (panic_on_ord_violation).
Panicked == << [ name |-> << >>, includes |-> << "panic" >> ] >>

Join(a, b) == IF a = Panicked \/ b = Panicked THEN Panicked ELSE a \o b

Min(a, b) == IF a < b THEN a ELSE b

Max(a, b) == IF a > b THEN a ELSE b

RECURSIVE Pow2(_)
Pow2(n) == IF n = 0 THEN 1 ELSE 2 * Pow2(n - 1)

RECURSIVE ilog2(_)
ilog2(n) == IF n < 2 THEN 0 ELSE 1 + ilog2(n \div 2)

\* n | 1
Or1(n) == IF n % 2 = 0 THEN n + 1 ELSE n

Reverse(s) == [ i \in 1..Len(s) |-> s[Len(s) + 1 - i] ]

RECURSIVE insert_tail(_, _)
\* insert_tail: x, the element after the sorted s, moves left while it is
\* less than its left neighbour.
insert_tail(s, x) ==
    IF s = <<>> \/ ~is_less(x, s[Len(s)]) THEN Append(s, x)
    ELSE Append(insert_tail(SubSeq(s, 1, Len(s) - 1), x), s[Len(s)])

RECURSIVE insertion_sort_shift_left(_, _)
\* insertion_sort_shift_left(v, offset): the first offset elements are sorted,
\* the others are inserted one after the other.
insertion_sort_shift_left(v, offset) ==
    IF offset >= Len(v) THEN v
    ELSE insertion_sort_shift_left(
             insert_tail(SubSeq(v, 1, offset), v[offset + 1])
                 \o SubSeq(v, offset + 2, Len(v)),
             offset + 1)

\* sort4_stable: the first four elements of v, by five comparisons.
sort4_stable(v) ==
    LET c1 == is_less(v[2], v[1])
        c2 == is_less(v[4], v[3])
        a  == IF c1 THEN v[2] ELSE v[1]
        b  == IF c1 THEN v[1] ELSE v[2]
        c  == IF c2 THEN v[4] ELSE v[3]
        d  == IF c2 THEN v[3] ELSE v[4]
        c3 == is_less(c, a)
        c4 == is_less(d, b)
        min == IF c3 THEN c ELSE a
        max == IF c4 THEN b ELSE d
        unknown_left  == IF c3 THEN a ELSE (IF c4 THEN c ELSE b)
        unknown_right == IF c4 THEN d ELSE (IF c3 THEN b ELSE c)
        c5 == is_less(unknown_right, unknown_left)
        lo == IF c5 THEN unknown_right ELSE unknown_left
        hi == IF c5 THEN unknown_left ELSE unknown_right
    IN  << min, lo, hi, max >>

RECURSIVE bidirectional_merge_loop(_, _, _, _, _, _, _, _)
\* The loop of bidirectional_merge: n times one merge_up and one merge_down.
bidirectional_merge_loop(src, n, left, right, left_rev, right_rev, up, down) ==
    IF n = 0
    THEN [ left |-> left, right |-> right, left_rev |-> left_rev,
           right_rev |-> right_rev, up |-> up, down |-> down ]
    ELSE LET up_l   == ~is_less(src[right], src[left])
             down_l == ~is_less(src[right_rev], src[left_rev])
         IN  bidirectional_merge_loop(
                 src, n - 1,
                 IF up_l THEN left + 1 ELSE left,
                 IF up_l THEN right ELSE right + 1,
                 IF down_l THEN left_rev ELSE left_rev - 1,
                 IF down_l THEN right_rev - 1 ELSE right_rev,
                 Append(up, IF up_l THEN src[left] ELSE src[right]),
                 << IF down_l THEN src[right_rev] ELSE src[left_rev] >> \o down)

\* The end of bidirectional_merge, s the state the loop left: the element in
\* the middle of an odd length is copied, and the sort panics when the two
\* ends did not meet.
bidirectional_merge_end(src, s) ==
    LET left_end  == s.left_rev + 1
        right_end == s.right_rev + 1
        odd  == Len(src) % 2 # 0
        left_nonempty == s.left < left_end
        last  == IF left_nonempty THEN s.left ELSE s.right
        left  == IF odd /\ left_nonempty THEN s.left + 1 ELSE s.left
        right == IF odd /\ ~left_nonempty THEN s.right + 1 ELSE s.right
    IN  IF left # left_end \/ right # right_end THEN Panicked
        ELSE s.up \o (IF odd THEN << src[last] >> ELSE <<>>) \o s.down

\* bidirectional_merge: the two sorted halves of src are merged from both
\* ends at once.
bidirectional_merge(src) ==
    bidirectional_merge_end(
        src,
        bidirectional_merge_loop(src, Len(src) \div 2, 1, Len(src) \div 2 + 1,
                                 Len(src) \div 2, Len(src), <<>>, <<>>))

\* One half of small_sort_general_with_scratch: sorted by insertion, after
\* its first four elements were sorted by sort4_stable when the whole slice
\* has eight elements or more.
small_sort_half(h, len) ==
    IF len >= 8
    THEN insertion_sort_shift_left(sort4_stable(h) \o SubSeq(h, 5, Len(h)), 4)
    ELSE insertion_sort_shift_left(h, 1)

\* small_sort_general_with_scratch: the two halves are sorted and merged.
small_sort_general(v) ==
    IF Len(v) < 2 THEN v
    ELSE bidirectional_merge(
             small_sort_half(SubSeq(v, 1, Len(v) \div 2), Len(v))
                 \o small_sort_half(SubSeq(v, Len(v) \div 2 + 1, Len(v)), Len(v)))

\* median3: the index, among a, b and c, of the median element.
median3(v, a, b, c) ==
    LET x == is_less(v[a], v[b])
        y == is_less(v[a], v[c])
        z == is_less(v[b], v[c])
    IN  IF x = y THEN (IF z # x THEN c ELSE b) ELSE a

RECURSIVE median3_rec(_, _, _, _, _)
median3_rec(v, a, b, c, n) ==
    IF n * 8 >= 64
    THEN LET n8 == n \div 8
         IN  median3(v, median3_rec(v, a, a + n8 * 4, a + n8 * 7, n8),
                        median3_rec(v, b, b + n8 * 4, b + n8 * 7, n8),
                        median3_rec(v, c, c + n8 * 4, c + n8 * 7, n8))
    ELSE median3(v, a, b, c)

\* choose_pivot: the index of the pivot.
choose_pivot(v) ==
    LET len_div_8 == Len(v) \div 8
        a == 1
        b == 1 + len_div_8 * 4
        c == 1 + len_div_8 * 7
    IN  IF Len(v) < 64 THEN median3(v, a, b, c) ELSE median3_rec(v, a, b, c, len_div_8)

\* stable_partition: whether v[i] goes to the left of the pivot. In the
\* partition by equality (equal) the pivot goes left with the elements the
\* pivot is not less than; otherwise it goes right and the elements less than
\* it go left.
goes_left(v, i, pivot_pos, equal) ==
    IF i = pivot_pos THEN equal
    ELSE IF equal THEN ~is_less(v[pivot_pos], v[i])
    ELSE is_less(v[i], v[pivot_pos])

\* stable_partition: both sides keep the order of v.
stable_partition(v, pivot_pos, equal) ==
    LET idx == [ i \in 1..Len(v) |-> i ]
        l   == SelectSeq(idx, LAMBDA i : goes_left(v, i, pivot_pos, equal))
        r   == SelectSeq(idx, LAMBDA i : ~goes_left(v, i, pivot_pos, equal))
    IN  [ left |-> [ k \in 1..Len(l) |-> v[l[k]] ],
          right |-> [ k \in 1..Len(r) |-> v[r[k]] ] ]

RECURSIVE merge_up(_, _)
\* MergeState::merge_up: from the front, the left element unless the right
\* one is less.
merge_up(left, right) ==
    IF left = <<>> THEN right
    ELSE IF right = <<>> THEN left
    ELSE IF ~is_less(Head(right), Head(left))
    THEN << Head(left) >> \o merge_up(Tail(left), right)
    ELSE << Head(right) >> \o merge_up(left, Tail(right))

RECURSIVE merge_down(_, _)
\* MergeState::merge_down: from the back, the left element when the right
\* one is less than it.
merge_down(left, right) ==
    IF left = <<>> THEN right
    ELSE IF right = <<>> THEN left
    ELSE IF is_less(right[Len(right)], left[Len(left)])
    THEN Append(merge_down(SubSeq(left, 1, Len(left) - 1), right), left[Len(left)])
    ELSE Append(merge_down(left, SubSeq(right, 1, Len(right) - 1)), right[Len(right)])

\* merge::merge(v, scratch, mid): the shorter side is moved to the scratch
\* space; nothing is done when it does not fit.
merge(v, scratch, mid) ==
    LET len == Len(v)
        left  == SubSeq(v, 1, mid)
        right == SubSeq(v, mid + 1, len)
    IN  IF mid = 0 \/ mid >= len \/ scratch < Min(mid, len - mid) THEN v
        ELSE IF mid <= len - mid THEN merge_up(left, right)
        ELSE merge_down(left, right)

\* merge_tree_depth(left, mid, right, scale_factor), the number of leading
\* bits the scaled midpoints x = left + mid and y = mid + right share, with
\* scale_factor = ceil(2^62 / n). For the lengths modelled the first L bits
\* of scale_factor * x are floor(x * 2^(L-2) / n), which needs no 64-bit
\* arithmetic.
RECURSIVE leading_zeros_xor(_, _, _, _)
leading_zeros_xor(x, y, n, L) ==
    IF (x * Pow2(L - 1)) \div n # (y * Pow2(L - 1)) \div n THEN L
    ELSE leading_zeros_xor(x, y, n, L + 1)

merge_tree_depth(left, mid, right, n) ==
    leading_zeros_xor(left + mid, mid + right, n, 1)

\* sqrt_approx
sqrt_approx(n) ==
    LET shift == (1 + ilog2(Or1(n))) \div 2
    IN  (Pow2(shift) + n \div Pow2(shift)) \div 2

\* The minimum length of a natural run that is kept.
min_good_run_len(len) ==
    IF len <= 4096 THEN Min(len - len \div 2, 64) ELSE sqrt_approx(len)

RECURSIVE run_end(_, _, _)
run_end(v, run_len, descending) ==
    IF run_len < Len(v) /\ (is_less(v[run_len + 1], v[run_len]) = descending)
    THEN run_end(v, run_len + 1, descending)
    ELSE run_len

\* find_existing_run: the length of the run v starts with, and whether it is
\* strictly descending.
find_existing_run(v) ==
    IF Len(v) < 2 THEN [ run_len |-> Len(v), descending |-> FALSE ]
    ELSE LET descending == is_less(v[2], v[1])
         IN  [ run_len |-> run_end(v, 2, descending), descending |-> descending ]

RECURSIVE quicksort(_, _, _, _)
RECURSIVE drift_loop(_, _, _, _, _, _)

\* stable_quicksort
stable_quicksort(v, scratch) ==
    quicksort(v, scratch, 2 * ilog2(Or1(Len(v))), None)

\* create_run: the run the rest of the slice starts with, and the rest of
\* the slice after the run was made.
create_run(v, scratch, min_good, eager_sort) ==
    LET len == Len(v)
        run == find_existing_run(v)
        n   == Min(32, len)
    IN  IF len >= min_good /\ run.run_len >= min_good
        THEN [ len |-> run.run_len, sorted |-> TRUE,
               v |-> (IF run.descending
                      THEN Reverse(SubSeq(v, 1, run.run_len))
                      ELSE SubSeq(v, 1, run.run_len))
                     \o SubSeq(v, run.run_len + 1, len) ]
        ELSE IF eager_sort
        THEN [ len |-> n, sorted |-> TRUE,
               v |-> Join(quicksort(SubSeq(v, 1, n), scratch, 0, None),
                          SubSeq(v, n + 1, len)) ]
        ELSE [ len |-> Min(min_good, len), sorted |-> FALSE, v |-> v ]

\* The physical merge of logical_merge, l and r the two sorted sides.
merge_sorted(l, r, scratch) ==
    IF Join(l, r) = Panicked THEN Panicked ELSE merge(l \o r, scratch, Len(l))

\* logical_merge: two unsorted runs that fit in the scratch space become one
\* unsorted run; otherwise the unsorted ones are sorted and the two merged.
logical_merge(v, scratch, left, right) ==
    IF Len(v) > scratch \/ left.sorted \/ right.sorted
    THEN [ sorted |-> TRUE,
           v |-> merge_sorted(
                     IF left.sorted THEN SubSeq(v, 1, left.len)
                     ELSE stable_quicksort(SubSeq(v, 1, left.len), scratch),
                     IF right.sorted THEN SubSeq(v, left.len + 1, Len(v))
                     ELSE stable_quicksort(SubSeq(v, left.len + 1, Len(v)), scratch),
                     scratch) ]
    ELSE [ sorted |-> FALSE, v |-> v ]

RECURSIVE collapse(_, _, _, _, _, _)

\* One merge of the inner loop of drift::sort: m is the merged run, which
\* starts at start and ends at scan_idx.
collapse_merged(v, scratch, scan_idx, start, stack, desired_depth, m) ==
    collapse(Join(Join(SubSeq(v, 1, start), m.v), SubSeq(v, scan_idx + 1, Len(v))),
             scratch, scan_idx,
             [ len |-> scan_idx - start, sorted |-> m.sorted ],
             SubSeq(stack, 1, Len(stack) - 1), desired_depth)

\* The inner loop of drift::sort: the run before the next one is merged with
\* the runs on the stack whose depth is at least the desired one.
collapse(v, scratch, scan_idx, prev_run, stack, desired_depth) ==
    IF v # Panicked /\ Len(stack) > 1 /\ stack[Len(stack)].depth >= desired_depth
    THEN collapse_merged(
             v, scratch, scan_idx,
             scan_idx - (stack[Len(stack)].len + prev_run.len),
             stack, desired_depth,
             logical_merge(
                 SubSeq(v, scan_idx - (stack[Len(stack)].len + prev_run.len) + 1,
                        scan_idx),
                 scratch, stack[Len(stack)], prev_run))
    ELSE [ v |-> v, prev_run |-> prev_run, stack |-> stack ]

\* The end of drift::sort, c what the inner loop left: a last unsorted run
\* is sorted by stable_quicksort.
drift_end(c, scratch) ==
    IF c.v = Panicked THEN Panicked
    ELSE IF c.prev_run.sorted THEN c.v
    ELSE stable_quicksort(c.v, scratch)

\* The end of an iteration of the outer loop, c what the inner loop left:
\* the run before the next one is pushed and the next run becomes it.
drift_push(c, scratch, eager_sort, scan_idx, next_run, desired_depth) ==
    IF c.v = Panicked THEN Panicked
    ELSE drift_loop(c.v, scratch, eager_sort, scan_idx + next_run.len, next_run,
                    Append(c.stack, [ len |-> c.prev_run.len,
                                      sorted |-> c.prev_run.sorted,
                                      depth |-> desired_depth ]))

\* An iteration of the outer loop, made the run create_run made.
drift_next(v, scratch, eager_sort, scan_idx, prev_run, stack, made, desired_depth) ==
    drift_push(collapse(Join(SubSeq(v, 1, scan_idx), made.v), scratch, scan_idx,
                        prev_run, stack, desired_depth),
               scratch, eager_sort, scan_idx,
               [ len |-> made.len, sorted |-> made.sorted ], desired_depth)

\* An iteration of the outer loop of drift::sort, made the run create_run
\* made of the rest of the slice.
drift_run(v, scratch, eager_sort, scan_idx, prev_run, stack, made) ==
    drift_next(v, scratch, eager_sort, scan_idx, prev_run, stack, made,
               merge_tree_depth(scan_idx - prev_run.len, scan_idx,
                                scan_idx + made.len, Len(v)))

\* The outer loop of drift::sort, from scan_idx on.
drift_loop(v, scratch, eager_sort, scan_idx, prev_run, stack) ==
    IF scan_idx < Len(v)
    THEN drift_run(v, scratch, eager_sort, scan_idx, prev_run, stack,
                   create_run(SubSeq(v, scan_idx + 1, Len(v)), scratch,
                              min_good_run_len(Len(v)), eager_sort))
    ELSE drift_end(collapse(v, scratch, scan_idx, prev_run, stack, 0), scratch)

\* drift::sort
drift_sort(v, scratch, eager_sort) ==
    IF Len(v) < 2 THEN v
    ELSE drift_loop(v, scratch, eager_sort, 0, [ len |-> 0, sorted |-> TRUE ], <<>>)

\* The end of an iteration of stable::quicksort: lt and eq are v partitioned
\* around the pivot by less-than and by equality.
quicksort_partitioned(lt, eq, scratch, limit, left_ancestor_pivot, pivot) ==
    IF \/ left_ancestor_pivot.some /\ ~is_less(left_ancestor_pivot.val, pivot)
       \/ lt.left = <<>>
    THEN Join(eq.left, quicksort(eq.right, scratch, limit, None))
    ELSE Join(quicksort(lt.left, scratch, limit, left_ancestor_pivot),
              quicksort(lt.right, scratch, limit, Some(pivot)))

\* An iteration of stable::quicksort with its pivot chosen.
quicksort_pivot(v, scratch, limit, left_ancestor_pivot, pivot_pos) ==
    quicksort_partitioned(stable_partition(v, pivot_pos, FALSE),
                          stable_partition(v, pivot_pos, TRUE),
                          scratch, limit, left_ancestor_pivot, v[pivot_pos])

\* stable::quicksort: small slices go to the small sort, the others are
\* partitioned around the pivot; left_ancestor_pivot is None or Some(pivot).
quicksort(v, scratch, limit, left_ancestor_pivot) ==
    IF Len(v) <= 32 THEN small_sort_general(v)
    ELSE IF limit = 0 THEN drift_sort(v, scratch, TRUE)
    ELSE quicksort_pivot(v, scratch, limit - 1, left_ancestor_pivot, choose_pivot(v))

\* driftsort_main: the scratch space is the 4096-byte stack buffer or, when
\* that is too small, a heap buffer; short slices are sorted eagerly.
driftsort_main(v) ==
    LET len       == Len(v)
        alloc_len == Max(Max(len - len \div 2, Min(len, 8000000 \div 48)), 48)
        stack_len == 4096 \div 48
        scratch   == IF stack_len >= alloc_len THEN stack_len ELSE alloc_len
    IN  drift_sort(v, scratch, len <= 32 * 2)

\* slice::sort_by(compare): the sorted slice, or Panicked.
sort_by(v) ==
    IF Len(v) < 2 THEN v
    ELSE IF Len(v) <= 20 THEN insertion_sort_shift_left(v, 1)
    ELSE driftsort_main(v)

\* metadata.packages.iter().find(|x| x.name == dependency.name): the index of
\* the first package of that name, 0 when there is none.
find(packages, name) ==
    IF \E i \in 1..Len(packages) : packages[i].name = name
    THEN CHOOSE i \in 1..Len(packages) :
             packages[i].name = name
             /\ \A j \in 1..(i - 1) : packages[j].name # name
    ELSE 0

\* The baseline enabled list: the dependency's explicit list, with "default"
\* inserted at position 0 when the target declares it and the dependency
\* uses default features.
enabled_features_of(dep_package, dependency) ==
    IF default \in DOMAIN dep_package.features /\ dependency.uses_default_features
    THEN << default >> \o dependency.features
    ELSE dependency.features

\* dep_package.features.iter().map(Feature { name, includes }).collect()
all_features(dep_package) ==
    LET names == Ascending(DOMAIN dep_package.features)
    IN  [ i \in 1..Len(names) |->
            [ name |-> names[i], includes |-> dep_package.features[names[i]] ] ]

\* get_dependency_features: the DependencyFeatures it returns (features is
\* Panicked when the sort panicked).
get_dependency_features(metadata, dependency) ==
    LET dep_package == metadata.packages[find(metadata.packages, dependency.name)]
    IN  [ features |-> sort_by(all_features(dep_package)),
          enabled_features |-> enabled_features_of(dep_package, dependency) ]

\* DependencyFeatures::uses_default_features
uses_default_features(dependency_features) ==
    Contains(dependency_features.enabled_features, default)

\* DependencyFeatures::enabled_features_except_default
enabled_features_except_default(dependency_features) ==
    SelectSeq(dependency_features.enabled_features, LAMBDA x : x # default)

\* ---------------------------------------------------- version requirements

\* The characters a requirement text of a manifest entry is drawn from.
ReqAlphabet == { "1", ".", "^", "~", " ", "," }

IsDigit(c) == c = "1"

\* A version of a comparator: one to three numeric components.
IsVersion(v) ==
    LET parts == Split(v, ".")
    IN  /\ Len(parts) \in 1..3
        /\ \A i \in 1..Len(parts) :
               parts[i] # <<>> /\ \A k \in 1..Len(parts[i]) : IsDigit(parts[i][k])

\* One comparator of a requirement: spaces, an optional operator (caret when
\* there is none), spaces, the version, spaces.
ParseComparator(piece) ==
    LET t1    == TrimStartMatches(piece, " ")
        hasOp == t1 # <<>> /\ Head(t1) \in { "^", "~" }
        op    == IF hasOp /\ Head(t1) = "~" THEN "Tilde" ELSE "Caret"
        t2    == TrimStartMatches(IF hasOp THEN Tail(t1) ELSE t1, " ")
        ver   == TrimEndMatches(t2, " ")
    IN  [ ok |-> IsVersion(ver), op |-> op, ver |-> ver ]

\* semver::VersionReq::from_str, as cargo applies it to the manifest's text
\* to produce Dependency::req: the comma-separated comparators.
ParseReq(text) ==
    LET pieces == Split(text, ",")
        parsed == [ i \in 1..Len(pieces) |-> ParseComparator(pieces[i]) ]
    IN  [ ok |-> \A i \in 1..Len(parsed) : parsed[i].ok,
          comparators |->
              [ i \in 1..Len(parsed) |-> [ op |-> parsed[i].op, ver |-> parsed[i].ver ] ] ]

DisplayComparator(c) ==
    << IF c.op = "Tilde" THEN "~" ELSE "^" >> \o c.ver

RECURSIVE DisplayReq(_)
\* VersionReq's Display (req.to_string()): every comparator with its
\* operator written out, joined by ", ".
DisplayReq(req) ==
    IF req = <<>> THEN <<>>
    ELSE IF Len(req) = 1 THEN DisplayComparator(req[1])
    ELSE DisplayComparator(req[1]) \o << ",", " " >> \o DisplayReq(Tail(req))

\* version without the trim: the requirement as Display writes it.
version_untrimmed(dependency) == DisplayReq(dependency.req)

\* dependency.req.to_string().trim_start_matches('^').to_owned()
version(dependency) == TrimStartMatches(DisplayReq(dependency.req), "^")

\* The requirement texts a manifest entry may hold: those cargo accepts.
ReqTexts == { t \in SeqsUpTo(ReqAlphabet, MaxReqLen) : ParseReq(t).ok }

\* ------------------------------------------------ manifest and metadata

VARIABLES
    pc,                   \* where the run stands
    package_keyword,      \* --package, the keyword of choose_workspace_package
    dependency_keyword,   \* --dependency, the keyword of choose_dependency
    metadata,             \* what MetadataCommand::exec returns for the workspace
    files,                \* manifest_path -> contents of the manifest file
    files0,               \* the files as they were when the run started
    workspace_package,    \* index of the chosen workspace package, 0 before
    dependency,           \* the chosen Dependency
    dependency_features,  \* the DependencyFeatures of choose_features
    result,               \* the InquireResult of the last prompt
    exit_code,            \* the exit status of the process, -1 while it runs
    error                 \* the step whose error ended the run, "none" otherwise

vars ==
    << pc, package_keyword, dependency_keyword, metadata, files, files0,
       workspace_package, dependency, dependency_features, result, exit_code,
       error >>

PackagePool == << << "a", "p", "p" >>, << "l", "i", "b" >>, << "c", "l", "i" >> >>

DepPool ==
    << << "s", "e", "r", "d", "e" >>, << "r", "a", "n", "d" >>, << "s", "y", "n" >> >>

\* Option<String>

\* "ap" matches only app, "z" matches no package.
PackageKeywords == { None, Some(<< "a", "p" >>), Some(<< "z" >>) }
\* "Sd" matches only serde (case is ignored), "r" matches serde and rand,
\* "z" matches no dependency.
DependencyKeywords == { None, Some(<< "S", "d" >>), Some(<< "r" >>), Some(<< "z" >>) }

\* The value of dependencies.<name> in a manifest: a bare string (keys is
\* empty, version is the string) or an inline table with the keys `keys`, in
\* order; default_features and features are read only when their key is there.
BareEntry(text) ==
    [ kind |-> "str", version |-> text, keys |-> <<>>,
      default_features |-> TRUE, features |-> <<>> ]

TableEntry(text, keys, default_features, features) ==
    [ kind |-> "table", version |-> text, keys |-> keys,
      default_features |-> default_features, features |-> features ]

HasKey(e, k) == Contains(e.keys, k)

\* The feature lists a manifest entry declares for a target with feature
\* map fm: cargo rejects a name the resolved target does not declare.
ExplicitLists(fm, n) ==
    { l \in SeqsUpTo(DOMAIN fm, n) : \A i, j \in 1..Len(l) : i # j => l[i] # l[j] }

\* The entries a manifest may hold for a dependency on a target with feature
\* map fm before the run.
Entries(fm) ==
    { BareEntry(t) : t \in ReqTexts }
    \cup { TableEntry(t, << "version" >>, TRUE, <<>>) : t \in ReqTexts }
    \cup { TableEntry(t, << "version", "default-features" >>, FALSE, <<>>) : t \in ReqTexts }
    \cup { TableEntry(t, << "version", "features" >>, TRUE, l) :
             t \in ReqTexts, l \in ExplicitLists(fm, MaxExplicit) }
    \cup { TableEntry(t, << "version", "default-features", "features" >>, FALSE, l) :
             t \in ReqTexts, l \in ExplicitLists(fm, MaxExplicit) }

\* cargo_metadata::Dependency as cargo derives it from the manifest entry.
DependencyOf(name, e) ==
    [ name |-> name,
      req |-> ParseReq(e.version).comparators,
      uses_default_features |-> ~(HasKey(e, "default-features") /\ ~e.default_features),
      features |-> IF HasKey(e, "features") THEN e.features ELSE <<>> ]

\* A manifest with d dependencies, each declared by entry e.
Manifest(d, e) == [ dependencies |-> [ x \in { DepPool[k] : k \in 1..d } |-> e ] ]

\* The metadata of a workspace of n packages with d dependencies each, every
\* target declaring the feature map fm: the workspace members, then the
\* packages depended upon.
MetadataOf(n, d, e, fm) ==
    LET members ==
            [ i \in 1..n |->
                [ name |-> PackagePool[i],
                  manifest_path |-> PackagePool[i],
                  features |-> << >>,
                  dependencies |-> [ k \in 1..d |-> DependencyOf(DepPool[k], e) ] ] ]
        targets ==
            [ k \in 1..d |->
                [ name |-> DepPool[k],
                  manifest_path |-> DepPool[k],
                  features |-> fm,
                  dependencies |-> << >> ] ]
    IN  [ workspace_members |-> n, packages |-> members \o targets ]

\* Metadata::workspace_packages
workspace_packages(m) == SubSeq(m.packages, 1, m.workspace_members)

NoDependency ==
    [ name |-> <<>>, req |-> <<>>, uses_default_features |-> TRUE, features |-> <<>> ]

NoFeatures == [ features |-> <<>>, enabled_features |-> <<>> ]

\* ------------------------------------------------------------- prompts

Lower(c) == IF c = "S" THEN "s" ELSE c

RECURSIVE IsSubsequence(_, _)
\* The needle's characters occur in the haystack in order, case ignored.
IsSubsequence(needle, hay) ==
    IF needle = <<>> THEN TRUE
    ELSE IF hay = <<>> THEN FALSE
    ELSE IF Lower(Head(needle)) = Lower(Head(hay))
         THEN IsSubsequence(Tail(needle), Tail(hay))
         ELSE IsSubsequence(needle, Tail(hay))

\* fuzzy_match(items, keyword): the items the keyword matches. The matcher
\* returns them ranked by a score of its own; matches[0] is one of them.
fuzzy_match(items, keyword) ==
    { items[i] : i \in { k \in 1..Len(items) : IsSubsequence(keyword, items[k]) } }

\* x.iter().position(|x| x.name == ans).unwrap()
position(items, ans) ==
    CHOOSE i \in 1..Len(items) :
        items[i].name = ans /\ \A j \in 1..(i - 1) : items[j].name # ans

Names(items) == [ i \in 1..Len(items) |-> items[i].name ]

\* What prompt() may return for a list of options: inquire refuses an empty
\* list, otherwise the user answers, cancels (Esc), interrupts (Ctrl-C), or
\* the terminal fails.
PromptResults(options) ==
    IF options = <<>> THEN { "InvalidConfiguration" }
    ELSE { "Ok", "OperationCanceled", "OperationInterrupted", "NotTTY" }

\* handle_prompt_result without its exit: every error is returned.
handle_prompt_result_no_exit(r) == IF r = "Ok" THEN "Ok" ELSE "Err"

\* handle_prompt_result: "Ok" hands the answer on, "exit" is process::exit(0),
\* "Err" is returned to the caller.
handle_prompt_result(r) ==
    IF r = "Ok" THEN "Ok"
    ELSE IF r \in { "OperationInterrupted", "OperationCanceled" } THEN "exit"
    ELSE "Err"

\* exit_status of a main that drops the error of manage_features.
exit_status_dropped(r) == 0

\* The exit status main's Result gives the process.
exit_status(r) == IF r = "Ok" THEN 0 ELSE 1

\* choose_workspace_package without the single-package case.
choose_workspace_package_no_single(select_package_options, keyword) ==
    IF keyword.some THEN fuzzy_match(select_package_options, keyword.val)
    ELSE {}

\* choose_workspace_package up to its prompt: the answers it settles on
\* without a prompt; none means it prompts.
choose_workspace_package(select_package_options, keyword) ==
    IF Len(select_package_options) = 1 THEN { select_package_options[1] }
    ELSE IF keyword.some THEN fuzzy_match(select_package_options, keyword.val)
    ELSE {}

\* choose_dependency up to its prompt, likewise.
choose_dependency(select_dependencies_options, keyword) ==
    IF keyword.some THEN fuzzy_match(select_dependencies_options, keyword.val)
    ELSE {}

\* written_entry with the features key set whether or not the array is empty.
written_entry_features_always(version_, uses_default, array) ==
    IF uses_default /\ array = <<>>
    THEN BareEntry(version_)
    ELSE TableEntry(version_,
                    << "version" >>
                        \o (IF ~uses_default THEN << "default-features" >> ELSE <<>>)
                        \o << "features" >>,
                    uses_default,
                    array)

\* The value manage_features assigns to doc["dependencies"][dependency_name].
written_entry(version_, uses_default, array) ==
    IF uses_default /\ array = <<>>
    THEN BareEntry(version_)
    ELSE TableEntry(version_,
                    << "version" >>
                        \o (IF ~uses_default THEN << "default-features" >> ELSE <<>>)
                        \o (IF array # <<>> THEN << "features" >> ELSE <<>>),
                    uses_default,
                    array)

\* ------------------------------------------------------ manage_features

Fail(step) ==
    /\ pc' = "failed"
    /\ exit_code' = exit_status("Err")
    /\ error' = step

\* MetadataCommand::new().exec()?
MetadataExec ==
    /\ pc = "metadata"
    /\ pc' = "choose_package"
    /\ UNCHANGED << package_keyword, dependency_keyword, metadata, files, files0,
                    workspace_package, dependency, dependency_features, result,
                    exit_code, error >>

MetadataExecFails ==
    /\ pc = "metadata"
    /\ Fail("metadata")
    /\ UNCHANGED << package_keyword, dependency_keyword, metadata, files, files0,
                    workspace_package, dependency, dependency_features, result >>

\* choose_workspace_package, to its return or to its prompt.
ChooseWorkspacePackage ==
    /\ pc = "choose_package"
    /\ LET options == Names(workspace_packages(metadata))
           answers == choose_workspace_package(options, package_keyword)
       IN  IF answers = {}
           THEN /\ pc' = "prompt_package"
                /\ UNCHANGED workspace_package
           ELSE \E ans \in answers :
                    /\ workspace_package' = position(workspace_packages(metadata), ans)
                    /\ pc' = "choose_dependency"
    /\ UNCHANGED << package_keyword, dependency_keyword, metadata, files, files0,
                    dependency, dependency_features, result, exit_code, error >>

\* The Select prompt of choose_workspace_package answers.
PromptPackage ==
    /\ pc = "prompt_package"
    /\ LET options == Names(workspace_packages(metadata))
       IN  \E r \in PromptResults(options) :
               /\ result' = r
               /\ IF handle_prompt_result(r) = "Ok"
                  THEN \E ans \in Range(options) :
                           /\ workspace_package' =
                                  position(workspace_packages(metadata), ans)
                           /\ pc' = "choose_dependency"
                           /\ UNCHANGED << exit_code, error >>
                  ELSE IF handle_prompt_result(r) = "exit"
                  THEN /\ pc' = "exited"
                       /\ exit_code' = 0
                       /\ UNCHANGED << workspace_package, error >>
                  ELSE /\ Fail("prompt")
                       /\ UNCHANGED workspace_package
    /\ UNCHANGED << package_keyword, dependency_keyword, metadata, files, files0,
                    dependency, dependency_features >>

Dependencies == workspace_packages(metadata)[workspace_package].dependencies

\* choose_dependency, to its return or to its prompt.
ChooseDependency ==
    /\ pc = "choose_dependency"
    /\ LET answers == choose_dependency(Names(Dependencies), dependency_keyword)
       IN  IF answers = {}
           THEN /\ pc' = "prompt_dependency"
                /\ UNCHANGED dependency
           ELSE \E ans \in answers :
                    /\ dependency' = Dependencies[position(Dependencies, ans)]
                    /\ pc' = "choose_features"
    /\ UNCHANGED << package_keyword, dependency_keyword, metadata, files, files0,
                    workspace_package, dependency_features, result, exit_code, error >>

\* The Select prompt of choose_dependency answers.
PromptDependency ==
    /\ pc = "prompt_dependency"
    /\ LET options == Names(Dependencies)
       IN  \E r \in PromptResults(options) :
               /\ result' = r
               /\ IF handle_prompt_result(r) = "Ok"
                  THEN \E ans \in Range(options) :
                           /\ dependency' = Dependencies[position(Dependencies, ans)]
                           /\ pc' = "choose_features"
                           /\ UNCHANGED << exit_code, error >>
                  ELSE IF handle_prompt_result(r) = "exit"
                  THEN /\ pc' = "exited"
                       /\ exit_code' = 0
                       /\ UNCHANGED << dependency, error >>
                  ELSE /\ Fail("prompt")
                       /\ UNCHANGED dependency
    /\ UNCHANGED << package_keyword, dependency_keyword, metadata, files, files0,
                    workspace_package, dependency_features >>

\* choose_features, to its MultiSelect prompt.
ChooseFeatures ==
    /\ pc = "choose_features"
    /\ LET df == get_dependency_features(metadata, dependency)
       IN  IF df.features = Panicked
           THEN /\ pc' = "failed"
                /\ exit_code' = 101
                /\ error' = "panic"
                /\ UNCHANGED dependency_features
           ELSE /\ dependency_features' = df
                /\ pc' = "prompt_features"
                /\ UNCHANGED << exit_code, error >>
    /\ UNCHANGED << package_keyword, dependency_keyword, metadata, files, files0,
                    workspace_package, dependency, result >>

\* The options the user leaves checked, in the order they are displayed.
Checked(options, S) ==
    LET idx == SelectSeq([ i \in 1..Len(options) |-> i ], LAMBDA i : i \in S)
    IN  [ k \in 1..Len(idx) |-> options[idx[k]].name ]

\* The MultiSelect prompt of choose_features answers; the rest of
\* choose_features stores the selection.
PromptFeatures ==
    /\ pc = "prompt_features"
    /\ LET options == dependency_features.features
       IN  \E r \in PromptResults(options) :
               /\ result' = r
               /\ IF handle_prompt_result(r) = "Ok"
                  THEN \E S \in SUBSET (1..Len(options)) :
                           /\ dependency_features' =
                                  [ dependency_features EXCEPT
                                      !.enabled_features = Checked(options, S) ]
                           /\ pc' = "write"
                           /\ UNCHANGED << exit_code, error >>
                  ELSE IF handle_prompt_result(r) = "exit"
                  THEN /\ pc' = "exited"
                       /\ exit_code' = 0
                       /\ UNCHANGED << dependency_features, error >>
                  ELSE /\ Fail("prompt")
                       /\ UNCHANGED dependency_features
    /\ UNCHANGED << package_keyword, dependency_keyword, metadata, files, files0,
                    workspace_package, dependency >>

toml_path == workspace_packages(metadata)[workspace_package].manifest_path

\* fs::read_to_string(toml_path)? fails.
ReadFails ==
    /\ pc = "write"
    /\ Fail("read")
    /\ UNCHANGED << package_keyword, dependency_keyword, metadata, files, files0,
                    workspace_package, dependency, dependency_features, result >>

\* toml_plaintext.parse::<DocumentMut>()? fails.
ParseFails ==
    /\ pc = "write"
    /\ Fail("parse")
    /\ UNCHANGED << package_keyword, dependency_keyword, metadata, files, files0,
                    workspace_package, dependency, dependency_features, result >>

\* The document manage_features serializes: the parsed manifest with the one
\* entry replaced.
edited_doc ==
    LET doc == files[toml_path]
        entry == written_entry(version(dependency),
                               uses_default_features(dependency_features),
                               enabled_features_except_default(dependency_features))
    IN  [ doc EXCEPT !.dependencies =
            [ x \in DOMAIN doc.dependencies \cup { dependency.name } |->
                IF x = dependency.name THEN entry ELSE doc.dependencies[x] ] ]

\* The manifest is read, parsed, edited and written; the run returns Ok(()).
WriteManifest ==
    /\ pc = "write"
    /\ files' = [ files EXCEPT ![toml_path] = edited_doc ]
    /\ pc' = "done"
    /\ exit_code' = exit_status("Ok")
    /\ UNCHANGED << package_keyword, dependency_keyword, metadata, files0,
                    workspace_package, dependency, dependency_features, result, error >>

\* fs::write(toml_path, ..)? fails: before the file is touched, or after it
\* was truncated.
WriteFails ==
    /\ pc = "write"
    /\ \/ UNCHANGED files
       \/ files' = [ files EXCEPT ![toml_path] = [ dependencies |-> << >> ] ]
    /\ Fail("write")
    /\ UNCHANGED << package_keyword, dependency_keyword, metadata, files0,
                    workspace_package, dependency, dependency_features, result >>

\* The state a run starts in, for a workspace of n packages with d
\* dependencies each, declared by entry e on targets with feature map fm.
Start(n, d, e, fm, kp, kd) ==
    /\ pc = "metadata"
    /\ package_keyword = kp
    /\ dependency_keyword = kd
    /\ metadata = MetadataOf(n, d, e, fm)
    /\ files = [ p \in { PackagePool[i] : i \in 1..n } |-> Manifest(d, e) ]
    /\ files0 = files
    /\ workspace_package = 0
    /\ dependency = NoDependency
    /\ dependency_features = NoFeatures
    /\ result = "none"
    /\ exit_code = -1
    /\ error = "none"

\* The feature map that declares every name of FeatureNames.
FullMap == [ x \in FeatureNames |-> <<>> ]

\* Workspaces of every shape with every keyword, the dependencies declared by
\* a bare version string.
InitWorkspaces ==
    \E n \in 1..MaxPackages, d \in 0..MaxDeps :
        \E kp \in PackageKeywords, kd \in DependencyKeywords :
            Start(n, d, BareEntry(<< "1" >>), FullMap, kp, kd)

\* One package with one dependency, declared by every entry on targets with
\* every feature map, no keyword given.
InitManifests ==
    \E fm \in FeatureMaps :
        \E e \in Entries(fm) : Start(1, 1, e, fm, None, None)

Init == InitWorkspaces \/ InitManifests

Next ==
    \/ MetadataExec
    \/ MetadataExecFails
    \/ ChooseWorkspacePackage
    \/ PromptPackage
    \/ ChooseDependency
    \/ PromptDependency
    \/ ChooseFeatures
    \/ PromptFeatures
    \/ ReadFails
    \/ ParseFails
    \/ WriteManifest
    \/ WriteFails

Spec == Init /\ [][Next]_vars

\* ------------------------------------------ the feature resolver alone

\* The target of the dependency, and a package of another name.
target == DepPool[1]

Caret1 == << [ op |-> "Caret", ver |-> << "1" >> ] >>

TargetPackage(name, fm) ==
    [ name |-> name, manifest_path |-> name, features |-> fm, dependencies |-> << >> ]

\* metadata.packages of a dependency graph that holds one or two versions of
\* the target (two when another member of the graph depends on another
\* version of it), after a package of another name or not.
PackageLists ==
    LET versions == { << TargetPackage(target, fm) >> : fm \in FeatureMaps }
                    \cup { << TargetPackage(target, fm1), TargetPackage(target, fm2) >> :
                             fm1 \in FeatureMaps, fm2 \in FeatureMaps }
    IN  versions \cup { << TargetPackage(DepPool[2], << >>) >> \o v : v \in versions }

StartResolver(pk, l, u) ==
    /\ pc = "resolve"
    /\ metadata = [ workspace_members |-> 0, packages |-> pk ]
    /\ dependency =
           [ name |-> target, req |-> Caret1,
             uses_default_features |-> u, features |-> l ]
    /\ dependency_features = NoFeatures
    /\ package_keyword = None
    /\ dependency_keyword = None
    /\ files = << >>
    /\ files0 = << >>
    /\ workspace_package = 0
    /\ result = "none"
    /\ exit_code = -1
    /\ error = "none"

\* get_dependency_features is handed a dependency cargo resolved: one of the
\* packages of its name is the version it resolved to, and cargo rejects an
\* explicit feature that version does not declare.
InitVersions ==
    \E pk \in PackageLists :
        \E l \in UNION { ExplicitLists(pk[r].features, MaxExplicit) :
                           r \in { i \in 1..Len(pk) : pk[i].name = target } },
           u \in BOOLEAN :
            StartResolver(pk, l, u)

\* A target with a generated feature map, no explicit feature.
InitGenerated ==
    \E k \in 0..MaxBelow, m \in 0..MaxAbove, u \in BOOLEAN :
        StartResolver(<< TargetPackage(target, GeneratedMap(k, m)) >>, << >>, u)

InitResolver == InitVersions \/ InitGenerated

\* get_dependency_features(&metadata, dependency), as list_workspace_features
\* and choose_features call it.
Resolve ==
    /\ pc = "resolve"
    /\ LET df == get_dependency_features(metadata, dependency)
       IN  IF df.features = Panicked
           THEN /\ pc' = "panicked"
                /\ UNCHANGED dependency_features
           ELSE /\ dependency_features' = df
                /\ pc' = "resolved"
    /\ UNCHANGED << package_keyword, dependency_keyword, metadata, files, files0,
                    workspace_package, dependency, result, exit_code, error >>

\* The MultiSelect of choose_features answers Ok and choose_features stores
\* the selection, which is drawn from the first MaxNames options.
Select ==
    /\ pc = "resolved"
    /\ \E S \in SUBSET (1..Min(Len(dependency_features.features), MaxNames)) :
           dependency_features' =
               [ dependency_features EXCEPT
                   !.enabled_features = Checked(dependency_features.features, S) ]
    /\ pc' = "selected"
    /\ UNCHANGED << package_keyword, dependency_keyword, metadata, files, files0,
                    workspace_package, dependency, result, exit_code, error >>

NextResolver == Resolve \/ Select

SpecResolver == InitResolver /\ [][NextResolver]_vars

\* The package get_dependency_features looks the features up in.
dep_package == metadata.packages[find(metadata.packages, dependency.name)]

\* The names the target declares.
Declared == DOMAIN dep_package.features

\* --------------------------------------------------------------- claims

Cancelled == result \in { "OperationCanceled", "OperationInterrupted" }

\* The entry of the chosen dependency in the chosen package's manifest.
EntryNow == files[toml_path].dependencies[dependency.name]
EntryBefore == files0[toml_path].dependencies[dependency.name]

\* C1: a run whose prompt (package, dependency or feature) was cancelled or
\* interrupted has ended with exit status 0 and every manifest file holds
\* what it held when the run started.
C1_CancelLeavesManifest ==
    Cancelled => /\ pc = "exited"
                 /\ exit_code = 0
                 /\ error = "none"
                 /\ files = files0

\* The MultiSelect of the last stage was interrupted.
C1_Witness ==
    /\ pc = "exited"
    /\ result = "OperationInterrupted"
    /\ dependency_features # NoFeatures
    /\ files = files0

\* C2: when the target's feature map has no "default" entry, whatever the
\* user leaves checked, uses_default_features' is true and the entry written
\* carries no default-features key.
C2_NoDefaultKeepsDefaults ==
    (pc \in { "write", "done" } /\ default \notin Declared)
        => /\ uses_default_features(dependency_features)
           /\ pc = "done" => ~HasKey(EntryNow, "default-features")

\* C3: the value written at dependencies.<name> follows the decision table:
\* the bare version when defaults are on and the explicit list is empty,
\* otherwise an inline table with version, with default-features = false
\* exactly when defaults are off and with features = explicit list exactly
\* when that list is not empty.
C3_DecisionTable ==
    pc = "done" =>
        LET u == uses_default_features(dependency_features)
            x == enabled_features_except_default(dependency_features)
            e == EntryNow
        IN  IF u /\ x = <<>>
            THEN e.kind = "str" /\ e.version = version(dependency) /\ e.keys = <<>>
            ELSE /\ e.kind = "table"
                 /\ HasKey(e, "version") /\ e.version = version(dependency)
                 /\ HasKey(e, "default-features") <=> ~u
                 /\ HasKey(e, "default-features") => e.default_features = FALSE
                 /\ HasKey(e, "features") <=> x # <<>>
                 /\ HasKey(e, "features") => e.features = x
                 /\ Range(e.keys) \subseteq { "version", "default-features", "features" }

\* Defaults off and an extra feature: the table with all three keys.
C3_Witness ==
    /\ pc = "done"
    /\ ~uses_default_features(dependency_features)
    /\ enabled_features_except_default(dependency_features) # <<>>
    /\ EntryNow.keys = << "version", "default-features", "features" >>

\* The final selection is "default features on, no extra features" and the
\* entry was a bare string before the run.
BareAndDefaultsOnly ==
    /\ pc = "done"
    /\ EntryBefore.kind = "str"
    /\ uses_default_features(dependency_features)
    /\ enabled_features_except_default(dependency_features) = <<>>

Canonical(text) ==
    /\ \A i \in 1..Len(text) : text[i] \notin { " ", "," }
    /\ text # <<>> /\ text[1] # "^"

C5_DefaultFirstRestAscending ==
    (pc = "resolved" /\ default \in Declared) =>
        LET f == dependency_features.features
        IN  /\ f[1].name = default
            /\ \A i, j \in 2..Len(f) : i < j => StrCmp(f[i].name, f[j].name) = "Less"

\* C6: with exactly one workspace package the package resolver never
\* suspends at its prompt and returns that package.
C6_SinglePackageNeverPrompts ==
    Len(workspace_packages(metadata)) = 1 =>
        /\ pc # "prompt_package"
        /\ pc = "choose_dependency" => (workspace_package = 1 /\ result = "none")

\* One package, a keyword that matches nothing, and the package is chosen.
C6_Witness ==
    /\ Len(workspace_packages(metadata)) = 1
    /\ package_keyword = Some(<< "z" >>)
    /\ pc = "choose_dependency"
    /\ workspace_package = 1

\* C7: with exactly one direct dependency the dependency resolver never
\* suspends at its prompt.
C7_SingleDependencyNeverPrompts ==
    (workspace_package # 0 /\ Len(Dependencies) = 1) => pc # "prompt_dependency"

\* C8: a fatal error before the manifest is written ends the run with a
\* non-zero exit status and leaves every manifest file as it was; exit
\* status 0 is that of a completed run or of a cancelled one.
C8_FatalErrorExitsNonZero ==
    /\ error \in { "metadata", "prompt", "read", "parse" }
           => (pc = "failed" /\ exit_code > 0 /\ files = files0)
    /\ exit_code = 0
           => \/ pc = "done" /\ error = "none"
              \/ pc = "exited" /\ Cancelled

\* The manifest did not parse, after all three stages.
C8_Witness ==
    /\ pc = "failed"
    /\ error = "parse"
    /\ exit_code = 1
    /\ files = files0

\* The number of times x occurs in s.
Count(s, x) == Cardinality({ i \in 1..Len(s) : s[i] = x })

\* C9: when the target declares "default" and the dependency uses default
\* features, "default" is at position 0 of the baseline and occurs in it
\* once; otherwise the baseline is the dependency's explicit list.
C9_BaselineDefaultOnce ==
    pc = "resolved" =>
        LET enabled == dependency_features.enabled_features
        IN  IF default \in Declared /\ dependency.uses_default_features
            THEN enabled[1] = default /\ Count(enabled, default) = 1
            ELSE enabled = dependency.features

\* C10: every name of enabled_features, in the baseline and after the
\* selection is stored, is a declared feature name of the target or "default".
C10_EnabledAreDeclared ==
    pc \in { "resolved", "selected" } =>
        Range(dependency_features.enabled_features) \subseteq Declared \cup { default }

====
